---- MODULE Spec2Model ----
(***************************************************************************)
(* A model of decky-wine-cellar's backend:                                 *)
(*   - the task worker of wine_cask/mod.rs (process_queue) together with   *)
(*     the WineCask queue it drains;                                       *)
(*   - the read-side functions of steam_util.rs (find_steam_directory,     *)
(*     list_library_folders, list_installed_applications,                  *)
(*     get_compatibility_tools_mappings) over a small filesystem.          *)
(* A Rust panic (an unwrap() of None or Err) is the result kind "Panic"    *)
(* for a function, and the worker position "panicked" for the worker.      *)
(***************************************************************************)
EXTENDS Integers, Sequences, FiniteSets, TLC

VARIABLES
    \* ---- the task queue and its worker (wine_cask/mod.rs) ----
    task_queue,     \* WineCask's queue: a sequence of tasks, front first
    pc,             \* the worker's position: "pop", "install" or "panicked"
    processing,     \* the tasks whose handler call has not returned yet
    peer_map,       \* the connected peers (owned by the transport)
    polls,          \* consecutive pops that found the queue empty
    enqueued,       \* history: every task appended so far, in append order
    dequeued,       \* history: the ids the worker popped, in pop order
    invoked,        \* history: the handler calls the worker made
    handled,        \* history: ids whose match arm ran to its end
    \* ---- find_steam_directory ----
    user_home_directory, env_userprofile, env_home,
    config_vdf_at,            \* roots holding config/config.vdf
    config_libraryfolders_at, \* roots holding config/libraryfolders.vdf
    steamapps_libraryfolders_at, \* roots holding steamapps/libraryfolders.vdf
    steam_dir_result,
    \* ---- list_library_folders / list_installed_applications ----
    steamapps_dir,        \* does <steam_path>/steamapps exist
    libraryfolders_vdf,   \* the library-folders document
    library_fs,           \* what lies at <library>/steamapps, per library
    catalog_result,
    \* ---- get_compatibility_tools_mappings ----
    config_vdf,           \* the main config document
    mappings_result,
    \* ---- list_compatibility_tools ----
    steam_path_exists,    \* does the installation root exist
    tools_dir,            \* <steam_path>/compatibilitytools.d: "missing" or "dir"
    create_dir_fails,     \* would fs::create_dir of the tools directory fail
    tools_entries,        \* the entries of the tools directory, in read_dir order
    tools_result,
    \* ---- userdata: list_shortcuts, list_installed_applications_by_userdata ----
    userdata_dir,         \* does <steam_path>/userdata exist
    userdata,             \* per user: its localconfig.vdf and shortcuts.vdf
    shortcuts_result,
    userdata_result,
    \* ---- recursive_delete_dir_entry ----
    del_fs,               \* what each path is: "absent", "file", "dir" or "link"
    del_faults,           \* the paths whose removal, and whose read_dir, fails
    del_order,            \* the order in which read_dir yields entries
    del_result,
    \* ---- generate_compatibility_tool_vdf, read back ----
    vdf_internal_name,
    vdf_display_name,
    vdf_file,             \* the text of <tool directory>/compatibilitytool.vdf
    vdf_result

queue_vars == <<task_queue, pc, processing, peer_map, polls, enqueued,
                dequeued, invoked, handled>>
locator_vars == <<user_home_directory, env_userprofile, env_home, config_vdf_at,
                  config_libraryfolders_at, steamapps_libraryfolders_at,
                  steam_dir_result>>
catalog_vars == <<steamapps_dir, libraryfolders_vdf, library_fs, catalog_result>>
config_vars == <<config_vdf, mappings_result>>
tools_vars == <<steam_path_exists, tools_dir, create_dir_fails, tools_entries,
                tools_result>>
userdata_vars == <<userdata_dir, userdata, shortcuts_result, userdata_result>>
delete_vars == <<del_fs, del_faults, del_order, del_result>>
descriptor_vars == <<vdf_internal_name, vdf_display_name, vdf_file, vdf_result>>
more_vars == <<tools_vars, userdata_vars, delete_vars, descriptor_vars>>
fs_vars == <<locator_vars, catalog_vars, config_vars, more_vars>>
vars == <<queue_vars, fs_vars>>

\* ------------------------------------------------------------------------
\* Bounds
\* ------------------------------------------------------------------------
MaxTasks == 3
MaxPolls == 2
MaxFolders == 2
MaxManifests == 2
MaxTools == 2
MaxUsers == 2
MaxFaults == 1
MaxNameLen == 2

\* ------------------------------------------------------------------------
\* Helpers
\* ------------------------------------------------------------------------
SeqsUpTo(S, n) == UNION {[1..k -> S] : k \in 0..n}

\* ========================================================================
\* The task queue and its worker
\* ========================================================================
InstallCompatibilityTool == "InstallCompatibilityTool"
UninstallCompatibilityTool == "UninstallCompatibilityTool"

\* Option<Install>: "None" or a payload.
Payloads == {"GE-Proton"}
NoPayload == "None"
Peers == {"peer1"}

\* The tasks a request handler can build: task.install is an Option.
NewTasks ==
    {[type |-> InstallCompatibilityTool, install |-> p] : p \in Payloads \cup {NoPayload}}
    \cup {[type |-> UninstallCompatibilityTool, install |-> NoPayload]}

QueueInit ==
    /\ task_queue = <<>>
    /\ pc = "pop"
    /\ processing = {}
    /\ peer_map = {}
    /\ polls = 0
    /\ enqueued = <<>>
    /\ dequeued = <<>>
    /\ invoked = <<>>
    /\ handled = {}

\* A producer appends a task (under the queue's lock).
Enqueue(t) ==
    /\ Len(enqueued) < MaxTasks
    /\ LET task == [id |-> Len(enqueued) + 1, type |-> t.type, install |-> t.install]
       IN /\ task_queue' = Append(task_queue, task)
          /\ enqueued' = Append(enqueued, task)
    /\ UNCHANGED <<pc, processing, peer_map, polls, dequeued, invoked, handled>>
    /\ UNCHANGED fs_vars

\* The transport adds or removes a peer.
PeerJoin(p) ==
    /\ p \notin peer_map
    /\ peer_map' = peer_map \cup {p}
    /\ UNCHANGED <<task_queue, pc, processing, polls, enqueued, dequeued, invoked, handled>>
    /\ UNCHANGED fs_vars

PeerLeave(p) ==
    /\ p \in peer_map
    /\ peer_map' = peer_map \ {p}
    /\ UNCHANGED <<task_queue, pc, processing, polls, enqueued, dequeued, invoked, handled>>
    /\ UNCHANGED fs_vars

\* WineCask::task_queue_pop_front on a non-empty queue: the front task and
\* the rest of the queue.
task_queue_pop_front(q) == [task |-> Head(q), rest |-> Tail(q)]

\* The end of the queue the worker takes its next task from: the front.
TakeFromBack(q) == [task |-> q[Len(q)], rest |-> SubSeq(q, 1, Len(q) - 1)]
NextTask(q) == task_queue_pop_front(q)

\* The worker is at the top of its loop: the previous handler call, which it
\* awaits, has returned.
AtLoopHeadNoAwait == pc \in {"pop", "install"}
AtLoopHead == pc = "pop"

\* The match arm of a popped task: only an install task has one that acts.
Dispatch(task) ==
    IF task.type = InstallCompatibilityTool THEN "install" ELSE "none"

\* pop_front() returned Some(task): the task leaves the queue and its arm runs.
\* An install task whose payload is None panics in unwrap(); one with a payload
\* starts the install handler, which the worker awaits; any other task is
\* dropped and the loop goes round.
PopSome ==
    /\ AtLoopHead
    /\ task_queue # <<>>
    /\ LET popped == NextTask(task_queue)
           task == popped.task
       IN /\ task_queue' = popped.rest
          /\ dequeued' = Append(dequeued, task.id)
          /\ polls' = 0
          /\ IF Dispatch(task) = "install"
             THEN IF task.install = NoPayload
                  THEN /\ pc' = "panicked"
                       /\ UNCHANGED <<processing, invoked, handled>>
                  ELSE /\ pc' = "install"
                       /\ processing' = processing \cup {task}
                       /\ invoked' = Append(invoked,
                              [id |-> task.id, handler |-> "install",
                               payload |-> task.install, peers |-> peer_map])
                       /\ UNCHANGED handled
             ELSE /\ pc' = pc
                  /\ handled' = handled \cup {task.id}
                  /\ UNCHANGED <<processing, invoked>>
    /\ UNCHANGED <<peer_map, enqueued>>
    /\ UNCHANGED fs_vars

\* pop_front() returned None: the arm is empty and the loop goes round.
PopNone ==
    /\ AtLoopHead
    /\ task_queue = <<>>
    /\ polls < MaxPolls
    /\ polls' = polls + 1
    /\ UNCHANGED <<task_queue, pc, processing, peer_map, enqueued, dequeued, invoked, handled>>
    /\ UNCHANGED fs_vars

\* install_compatibility_tool returns (it yields no value: a failure inside it
\* is reported by the handler itself) and the worker is back at its loop head.
InstallReturn ==
    /\ pc = "install"
    /\ \E task \in processing :
        /\ processing' = processing \ {task}
        /\ handled' = handled \cup {task.id}
        /\ pc' = IF processing' = {} THEN "pop" ELSE "install"
    /\ UNCHANGED <<task_queue, peer_map, polls, enqueued, dequeued, invoked>>
    /\ UNCHANGED fs_vars

\* ========================================================================
\* get_compatibility_tools_mappings
\* ========================================================================
\* The main config document, as far as the function looks into it:
\*   exists, readable, parses: the file is there, read_to_string and
\*       Vdf::parse succeed;
\*   chain: the keys found going down from the root object, one per level
\*       (shorter than four when a level is missing);
\*   table: the entries of the object at the end of the chain, each app id
\*       key with what its "name" holds (NoName: the entry has no "name").
ChainKeys ==
    << {"Software", "software"}, {"Valve", "valve"}, {"Steam", "steam"},
       {"CompatToolMapping", "compattoolmapping"} >>

\* The keys the function asks for at each level.
LookedUp ==
    << {"Software"}, {"Valve", "valve"}, {"Steam"}, {"CompatToolMapping"} >>

AppIdKeys == {"42", "730", "x"}
NoName == "<no name>"
ToolNames == {NoName, "", " ", "GE-Proton"}

\* str::parse::<u64>: -1 stands for Err.
ParseU64(str) ==
    CASE str = "42" -> 42
      [] str = "730" -> 730
      [] OTHER -> -1

ChainsOfLength(n) ==
    IF n = 0 THEN {<<>>}
    ELSE IF n = 1 THEN {<<a>> : a \in ChainKeys[1]}
    ELSE IF n = 2 THEN {<<a, b>> : a \in ChainKeys[1], b \in ChainKeys[2]}
    ELSE IF n = 3 THEN {<<a, b, c>> : a \in ChainKeys[1], b \in ChainKeys[2],
                                      c \in ChainKeys[3]}
    ELSE {<<a, b, c, d>> : a \in ChainKeys[1], b \in ChainKeys[2],
                           c \in ChainKeys[3], d \in ChainKeys[4]}

Tables == UNION {[K -> ToolNames] : K \in SUBSET AppIdKeys}

NoTable == [k \in {} |-> ""]

ConfigDocuments ==
    {[exists |-> FALSE, readable |-> FALSE, parses |-> FALSE, chain |-> <<>>, table |-> NoTable],
     [exists |-> TRUE, readable |-> FALSE, parses |-> FALSE, chain |-> <<>>, table |-> NoTable],
     [exists |-> TRUE, readable |-> TRUE, parses |-> FALSE, chain |-> <<>>, table |-> NoTable]}
    \cup {[exists |-> TRUE, readable |-> TRUE, parses |-> TRUE, chain |-> c, table |-> NoTable] :
            c \in ChainsOfLength(0) \cup ChainsOfLength(1) \cup ChainsOfLength(2)
                  \cup ChainsOfLength(3)}
    \cup {[exists |-> TRUE, readable |-> TRUE, parses |-> TRUE, chain |-> c, table |-> t] :
            c \in ChainsOfLength(4), t \in Tables}

\* Every get(key).unwrap() down the path finds its key.
PathFound(doc) ==
    /\ Len(doc.chain) = Len(LookedUp)
    /\ \A i \in 1..Len(LookedUp) : doc.chain[i] \in LookedUp[i]

\* The loop body unwraps the key's parse and the entry's "name".
EntryUnwraps(doc, k) == ParseU64(k) # -1 /\ doc.table[k] # NoName

\* An entry is inserted when its name is not the empty string.
Inserted(name) == name # ""

get_compatibility_tools_mappings ==
    IF ~config_vdf.exists
    THEN [kind |-> "Err", err |-> "SteamConfigVdfNotFound", value |-> {}]
    ELSE IF ~config_vdf.readable
    THEN [kind |-> "Err", err |-> "SteamConfigVdfNotFound", value |-> {}]
    ELSE IF ~config_vdf.parses
    THEN [kind |-> "Err", err |-> "VdfParsingError", value |-> {}]
    ELSE IF ~PathFound(config_vdf)
    THEN [kind |-> "Panic", err |-> "", value |-> {}]
    ELSE IF \E k \in DOMAIN config_vdf.table : ~EntryUnwraps(config_vdf, k)
    THEN [kind |-> "Panic", err |-> "", value |-> {}]
    ELSE [kind |-> "Ok", err |-> "",
          value |-> {<<ParseU64(k), config_vdf.table[k]>> :
                        k \in {x \in DOMAIN config_vdf.table : Inserted(config_vdf.table[x])}}]

NoMappings == [kind |-> "None", err |-> "", value |-> {}]

ConfigInit ==
    /\ config_vdf \in ConfigDocuments
    /\ mappings_result = NoMappings

GetCompatibilityToolsMappings ==
    /\ mappings_result' = get_compatibility_tools_mappings
    /\ UNCHANGED config_vdf
    /\ UNCHANGED <<queue_vars, locator_vars, catalog_vars, more_vars>>

\* ========================================================================
\* list_library_folders, find_installed_application,
\* list_installed_applications
\* ========================================================================
\* The library paths a library-folders document can name.
LibraryPaths == {"/lib1", "/lib2"}

\* An entry of the document is the string under its "path" key, or it is
\* malformed: not an object, or an object with no "path".
MalformedEntry == "<no path>"
DocumentEntries == LibraryPaths \cup {"", MalformedEntry}

\* Sequences without repetition of at most n elements of S.
DistinctSeqs(S, n) ==
    {q \in SeqsUpTo(S, n) : \A i, j \in 1..Len(q) : i # j => q[i] # q[j]}

LibraryFoldersDocuments ==
    {[exists |-> FALSE, parses |-> FALSE, entries |-> <<>>],
     [exists |-> TRUE, parses |-> FALSE, entries |-> <<>>]}
    \cup {[exists |-> TRUE, parses |-> TRUE, entries |-> e] :
            e \in DistinctSeqs(DocumentEntries, MaxFolders)}

\* The files a library's steamapps directory can hold: a file that is no
\* manifest, a manifest that does not parse, and manifests of two games (730
\* under two names, so that a copy can be told from the other).
OtherFile == [ext |-> "txt", parses |-> FALSE, appid |-> "", name |-> ""]
BrokenManifest == [ext |-> "acf", parses |-> FALSE, appid |-> "", name |-> ""]
GameA == [ext |-> "acf", parses |-> TRUE, appid |-> "730", name |-> "Game A"]
GameACopy == [ext |-> "acf", parses |-> TRUE, appid |-> "730", name |-> "Game A (copy)"]
GameB == [ext |-> "acf", parses |-> TRUE, appid |-> "42", name |-> "Game B"]
Files == {OtherFile, BrokenManifest, GameA, GameACopy, GameB}

\* A steamapps directory holds one manifest per app id (appmanifest_<id>.acf).
DirectoryListings ==
    {q \in DistinctSeqs(Files, MaxManifests) :
        \A i, j \in 1..Len(q) :
            (i # j /\ q[i].parses /\ q[j].parses) => q[i].appid # q[j].appid}

\* <library>/steamapps: missing, there but not listable by read_dir, or a
\* directory with its files in read_dir order.
SteamappsStates ==
    {[kind |-> "missing", files |-> <<>>], [kind |-> "unscannable", files |-> <<>>]}
    \cup {[kind |-> "dir", files |-> q] : q \in DirectoryListings}

\* The filters of the two scans: a non-empty path, a file named *.acf.
NonEmptyPath(path) == path # ""
IsManifest(file) == file.ext = "acf"

\* The branch taken when libraryfolders.vdf does not exist.
LibraryFoldersVdfMissingAsEmpty == [kind |-> "Ok", err |-> "", value |-> <<>>]
LibraryFoldersVdfMissing ==
    [kind |-> "Err", err |-> "LibraryFoldersVdfNotFound", value |-> <<>>]

list_library_folders ==
    IF ~steamapps_dir
    THEN [kind |-> "Err", err |-> "SteamAppsDirectoryNotFound", value |-> <<>>]
    ELSE IF ~libraryfolders_vdf.exists
    THEN LibraryFoldersVdfMissing
    ELSE IF ~libraryfolders_vdf.parses
    THEN [kind |-> "Panic", err |-> "", value |-> <<>>]
    ELSE IF \E i \in 1..Len(libraryfolders_vdf.entries) :
                libraryfolders_vdf.entries[i] = MalformedEntry
    THEN [kind |-> "Panic", err |-> "", value |-> <<>>]
    ELSE [kind |-> "Ok", err |-> "",
          value |-> SelectSeq(libraryfolders_vdf.entries, NonEmptyPath)]

\* The manifest of one .acf file as a SteamApp.
SteamAppOf(file) == [shortcut |-> FALSE, app_id |-> ParseU64(file.appid), name |-> file.name]

\* find_installed_application on <library>/steamapps. Its only failures are
\* unwraps: of read_dir, of a manifest's parse, of its appid.
find_installed_application(dir) ==
    IF dir.kind # "dir"
    THEN [kind |-> "Panic", err |-> "", value |-> <<>>]
    ELSE LET manifests == SelectSeq(dir.files, IsManifest)
         IN IF \E i \in 1..Len(manifests) :
                  ~manifests[i].parses \/ ParseU64(manifests[i].appid) = -1
            THEN [kind |-> "Panic", err |-> "", value |-> <<>>]
            ELSE [kind |-> "Ok", err |-> "",
                  value |-> [i \in 1..Len(manifests) |-> SteamAppOf(manifests[i])]]

\* The for loop of list_installed_applications over the folders still to scan,
\* apps being what the folders before them gave.
RECURSIVE ScanFolders(_, _)
ScanFolders(folders, apps) ==
    IF folders = <<>> THEN [kind |-> "Ok", err |-> "", value |-> apps]
    ELSE LET dir == library_fs[Head(folders)]
         IN IF dir.kind = "missing"
            THEN ScanFolders(Tail(folders), apps)
            ELSE LET found == find_installed_application(dir)
                 IN IF found.kind = "Ok"
                    THEN ScanFolders(Tail(folders), apps \o found.value)
                    ELSE found

list_installed_applications ==
    LET library_folders == list_library_folders
    IN IF library_folders.kind = "Ok"
       THEN ScanFolders(library_folders.value, <<>>)
       ELSE library_folders

NoCatalog == [op |-> "none", kind |-> "None", err |-> "", value |-> <<>>]

Called(op, result) ==
    [op |-> op, kind |-> result.kind, err |-> result.err, value |-> result.value]

\* libraryfolders.vdf lies in steamapps: it exists only if the directory does.
CatalogInit ==
    /\ steamapps_dir \in BOOLEAN
    /\ libraryfolders_vdf \in LibraryFoldersDocuments
    /\ libraryfolders_vdf.exists => steamapps_dir
    /\ library_fs \in [LibraryPaths -> SteamappsStates]
    /\ catalog_result = NoCatalog

ListLibraryFolders ==
    /\ catalog_result' = Called("list_library_folders", list_library_folders)
    /\ UNCHANGED <<steamapps_dir, libraryfolders_vdf, library_fs>>
    /\ UNCHANGED <<queue_vars, locator_vars, config_vars, more_vars>>

ListInstalledApplications ==
    /\ catalog_result' = Called("list_installed_applications", list_installed_applications)
    /\ UNCHANGED <<steamapps_dir, libraryfolders_vdf, library_fs>>
    /\ UNCHANGED <<queue_vars, locator_vars, config_vars, more_vars>>

\* ========================================================================
\* Key-value documents as Vdf::parse returns them
\* ========================================================================
\* A string is a sequence of atoms: single characters ("Q" the double quote,
\* "B" the backslash, "NL", "CR", "TAB", "WS", "{", "}", letters) and whole
\* words.
\* A value is a string or an object; an object keeps its entries in document
\* order and is read the way the parser's BTreeMap is: by key, keys in byte
\* order, the first value of a key.
Str(s) == [kind |-> "str", str |-> s, entries |-> <<>>]
Obj(es) == [kind |-> "obj", str |-> <<>>, entries |-> es]
Entry(k, v) == [key |-> k, val |-> v]

\* The atoms in byte order of their first character.
AtomOrder ==
    << "TAB", "NL", "CR", "WS", "Q", ".", "42", "730", "Apps", "GE-Proton", "Proton-Old",
       "Software", "Steam", "UserLocalConfigStore", "Valve", "B", "a", "apps",
       "compat_tools", "compatibilitytools", "display_name", "from_oslist",
       "install_path", "linux", "n", "to_oslist", "valve", "windows", "x", "{", "}" >>

RankOf(atom) == CHOOSE i \in 1..Len(AtomOrder) : AtomOrder[i] = atom

\* s sorts before t.
RECURSIVE LexLess(_, _)
LexLess(s, t) ==
    IF t = <<>> THEN FALSE
    ELSE IF s = <<>> THEN TRUE
    ELSE IF Head(s) = Head(t) THEN LexLess(Tail(s), Tail(t))
    ELSE RankOf(Head(s)) < RankOf(Head(t))

\* keys().next() / values().next(): the entry of the least key, the first one
\* in the document when the key repeats. Only used on a non-empty object.
FirstIndex(obj) ==
    CHOOSE i \in 1..Len(obj.entries) :
        /\ \A j \in 1..Len(obj.entries) : ~LexLess(obj.entries[j].key, obj.entries[i].key)
        /\ \A j \in 1..(i - 1) : obj.entries[j].key # obj.entries[i].key

FirstKey(obj) == obj.entries[FirstIndex(obj)].key
FirstValue(obj) == obj.entries[FirstIndex(obj)].val

\* get(key): does the object hold the key; get(key).get(0): its first value.
HasKey(obj, key) == \E i \in 1..Len(obj.entries) : obj.entries[i].key = key
Get(obj, key) ==
    obj.entries[CHOOSE i \in 1..Len(obj.entries) :
                    /\ obj.entries[i].key = key
                    /\ \A j \in 1..(i - 1) : obj.entries[j].key # key].val

\* get(key).unwrap().get(0).unwrap().get_str().unwrap() succeeds.
HasStr(obj, key) == HasKey(obj, key) /\ Get(obj, key).kind = "str"

\* ========================================================================
\* get_steam_compatibility_tools_directory,
\* read_compatibility_tool_from_vdf_path, list_compatibility_tools
\* ========================================================================
PanicTool == [kind |-> "Panic", err |-> "", value |-> <<>>]

\* The part of read_compatibility_tool_from_vdf_path after Vdf::parse: the
\* walk down the parsed document, every step of it an unwrap.
ToolFromVdf(vdf, directory_name) ==
    LET root == vdf.value
    IN IF root.kind # "obj" \/ root.entries = <<>> THEN PanicTool
       ELSE LET compat_tool_obj == FirstValue(root)
            IN IF compat_tool_obj.kind # "obj" \/ compat_tool_obj.entries = <<>>
               THEN PanicTool
               ELSE LET internal_value == FirstValue(compat_tool_obj)
                    IN IF internal_value.kind # "obj" THEN PanicTool
                       ELSE IF ~(/\ HasStr(internal_value, <<"display_name">>)
                                 /\ HasStr(internal_value, <<"from_oslist">>)
                                 /\ HasStr(internal_value, <<"to_oslist">>))
                       THEN PanicTool
                       ELSE [kind |-> "Ok", err |-> "",
                             value |-> << [directory_name |-> directory_name,
                                           internal_name |-> FirstKey(compat_tool_obj),
                                           display_name |->
                                               Get(internal_value, <<"display_name">>).str,
                                           from_os_list |->
                                               Get(internal_value, <<"from_oslist">>).str,
                                           to_os_list |->
                                               Get(internal_value, <<"to_oslist">>).str] >>]

\* A descriptor file: is it there, does Vdf::parse take it, and what it parses to.
NoVdf == [key |-> <<>>, value |-> Str(<<>>)]
MissingDescriptor == [exists |-> FALSE, parses |-> FALSE, vdf |-> NoVdf]
UnparsableDescriptor == [exists |-> TRUE, parses |-> FALSE, vdf |-> NoVdf]

read_compatibility_tool_from_vdf_path(file, directory_name) ==
    IF ~file.exists \/ ~file.parses THEN PanicTool
    ELSE ToolFromVdf(file.vdf, directory_name)

\* The descriptor of a tool with the given required fields present.
RequiredFields == {"display_name", "from_oslist", "to_oslist"}
FieldValue(field, internal_name) ==
    CASE field = "display_name" -> <<internal_name, "WS", "a">>
      [] field = "from_oslist" -> <<"windows">>
      [] field = "to_oslist" -> <<"linux">>
      [] OTHER -> <<".">>

DescriptorWith(internal_name, fields) ==
    [exists |-> TRUE, parses |-> TRUE,
     vdf |-> [key |-> <<"compatibilitytools">>,
              value |-> Obj(<< Entry(<<"compat_tools">>,
                  Obj(<< Entry(<<internal_name>>,
                      Obj(SelectSeq(
                          << Entry(<<"install_path">>, Str(<<".">>)),
                             Entry(<<"display_name">>,
                                   Str(FieldValue("display_name", internal_name))),
                             Entry(<<"from_oslist">>, Str(FieldValue("from_oslist", internal_name))),
                             Entry(<<"to_oslist">>, Str(FieldValue("to_oslist", internal_name))) >>,
                          LAMBDA e : e.key = <<"install_path">> \/ e.key[1] \in fields))) >>)) >>)]]

ToolNamesInstalled == {"GE-Proton", "Proton-Old"}

\* The descriptors a tool directory can hold: none, one that does not parse,
\* a well-formed one, one lacking a required field.
Descriptors(internal_name) ==
    {MissingDescriptor, UnparsableDescriptor}
    \cup {DescriptorWith(internal_name, RequiredFields \ missing) :
            missing \in {{}, {"display_name"}, {"from_oslist"}, {"to_oslist"}}}

\* An entry of the tools directory: a tool directory with its descriptor, or a
\* plain file.
ToolsEntries ==
    UNION {{[name |-> n, is_dir |-> TRUE, descriptor |-> d] : d \in Descriptors(n)}
           \cup {[name |-> n, is_dir |-> FALSE, descriptor |-> MissingDescriptor]} :
           n \in ToolNamesInstalled}

ToolsListings ==
    {q \in SeqsUpTo(ToolsEntries, MaxTools) :
        \A i, j \in 1..Len(q) : i # j => q[i].name # q[j].name}

\* get_steam_compatibility_tools_directory creates the tools directory when it
\* is missing and the installation root exists.
NeedsCreationWhateverTheRoot == tools_dir = "missing"
NeedsCreation == tools_dir = "missing" /\ steam_path_exists

\* It is listed by list_compatibility_tools: a directory holding a descriptor.
IsToolDirectory(entry) == entry.is_dir /\ entry.descriptor.exists

\* The map(..).collect() over the tool directories still to read.
RECURSIVE ReadTools(_)
ReadTools(entries) ==
    IF entries = <<>> THEN [kind |-> "Ok", err |-> "", value |-> <<>>]
    ELSE LET tool == read_compatibility_tool_from_vdf_path(Head(entries).descriptor,
                                                             Head(entries).name)
             rest == ReadTools(Tail(entries))
         IN IF tool.kind # "Ok" THEN PanicTool
            ELSE IF rest.kind # "Ok" THEN PanicTool
            ELSE [kind |-> "Ok", err |-> "", value |-> tool.value \o rest.value]

list_compatibility_tools ==
    IF NeedsCreation /\ create_dir_fails THEN PanicTool
    ELSE IF ~steam_path_exists THEN PanicTool
    ELSE ReadTools(SelectSeq(tools_entries, IsToolDirectory))

NoTools == [kind |-> "None", err |-> "", value |-> <<>>, created |-> FALSE]

\* The tools directory lies in the installation root.
ToolsInit ==
    /\ steam_path_exists \in BOOLEAN
    /\ tools_dir \in {"missing", "dir"}
    /\ tools_dir = "dir" => steam_path_exists
    /\ create_dir_fails \in BOOLEAN
    /\ tools_entries \in ToolsListings
    /\ tools_dir = "missing" => tools_entries = <<>>
    /\ tools_result = NoTools

ToolsIdle ==
    /\ steam_path_exists = FALSE
    /\ tools_dir = "missing"
    /\ create_dir_fails = FALSE
    /\ tools_entries = <<>>
    /\ tools_result = NoTools

\* A call of list_compatibility_tools: the directory is created when needed
\* and creatable, then listed.
ListCompatibilityTools ==
    /\ LET result == list_compatibility_tools
           creates == NeedsCreation /\ ~create_dir_fails
       IN /\ tools_dir' = IF creates THEN "dir" ELSE tools_dir
          /\ tools_result' = [kind |-> result.kind, err |-> result.err,
                              value |-> result.value, created |-> creates]
    /\ UNCHANGED <<steam_path_exists, create_dir_fails, tools_entries>>
    /\ UNCHANGED <<queue_vars, locator_vars, catalog_vars, config_vars, userdata_vars,
                   delete_vars, descriptor_vars>>

\* ========================================================================
\* The per-user directories: list_shortcuts,
\* list_installed_applications_by_userdata
\* ========================================================================
Users == {"u1", "u2"}

\* <user>/config/shortcuts.vdf as the binary decoder sees it: missing, not
\* decodable, decoded to a value without the expected members, or decoded to
\* the shortcuts it holds.
Emulator == [shortcut |-> TRUE, app_id |-> 1001, name |-> "Emulator"]
NoShortcuts == [kind |-> "missing", apps |-> <<>>]
ShortcutsFiles ==
    {NoShortcuts,
     [kind |-> "undecodable", apps |-> <<>>],
     [kind |-> "malformed", apps |-> <<>>],
     [kind |-> "ok", apps |-> <<>>],
     [kind |-> "ok", apps |-> <<Emulator>>]}

\* <user>/config/localconfig.vdf, a document like a descriptor file. A
\* well-formed one nests the app ids under Software / Valve / Steam / Apps.
NoLocalConfig == MissingDescriptor
AppKeySeqs == {<<>>, <<"42">>, <<"730">>, <<"730", "42">>, <<"x">>}
LocalConfigWith(valve, apps, keys) ==
    [exists |-> TRUE, parses |-> TRUE,
     vdf |-> [key |-> <<"UserLocalConfigStore">>,
              value |-> Obj(<< Entry(<<"Software">>,
                  Obj(<< Entry(<<valve>>,
                      Obj(<< Entry(<<"Steam">>,
                          Obj(<< Entry(<<apps>>,
                              Obj([i \in 1..Len(keys) |->
                                      Entry(<<keys[i]>>, Obj(<<>>))])) >>)) >>)) >>)) >>)]]

LocalConfigs ==
    {NoLocalConfig, UnparsableDescriptor,
     [exists |-> TRUE, parses |-> TRUE,
      vdf |-> [key |-> <<"UserLocalConfigStore">>, value |-> Obj(<<>>)]]}
    \cup {LocalConfigWith(valve, apps, keys) :
            valve \in {"Valve", "valve"}, apps \in {"Apps", "apps", "x"},
            keys \in AppKeySeqs}

\* get(key).unwrap().get(0).unwrap().get_obj().unwrap() succeeds.
HasObj(obj, key) == HasKey(obj, key) /\ Get(obj, key).kind = "obj"

\* get(a).or(get(b)): the key that is looked up.
Either(obj, a, b) == IF HasKey(obj, a) THEN a ELSE b

\* keys(): the keys in byte order, each once.
RECURSIVE KeysInOrder(_)
KeysInOrder(entries) ==
    IF entries = <<>> THEN <<>>
    ELSE LET first == FirstKey(Obj(entries))
         IN <<first>> \o KeysInOrder(SelectSeq(entries, LAMBDA e : e.key # first))

\* The walk of list_installed_applications_by_userdata down a parsed
\* localconfig.vdf to the keys of its apps object, every step of it an unwrap.
AppKeysOf(vdf) ==
    LET root == vdf.value
        panic == [kind |-> "Panic", keys |-> <<>>]
    IN IF root.kind # "obj" \/ ~HasObj(root, <<"Software">>) THEN panic
       ELSE LET software_vdf_obj == Get(root, <<"Software">>)
                valve == Either(software_vdf_obj, <<"Valve">>, <<"valve">>)
            IN IF ~HasObj(software_vdf_obj, valve) THEN panic
               ELSE IF ~HasObj(Get(software_vdf_obj, valve), <<"Steam">>) THEN panic
               ELSE LET steam == Get(Get(software_vdf_obj, valve), <<"Steam">>)
                        apps == Either(steam, <<"Apps">>, <<"apps">>)
                    IN IF ~HasObj(steam, apps) THEN panic
                       ELSE [kind |-> "Ok",
                             keys |-> KeysInOrder(Get(steam, apps).entries)]

\* installed.iter().find(..): the first installed app of that id that is not
\* yet in installed_userdata, compared as a whole SteamApp.
Contains(apps, app) == \E i \in 1..Len(apps) : apps[i] = app
Candidates(installed, key, installed_userdata) ==
    SelectSeq(installed,
              LAMBDA app : app.app_id = key /\ ~Contains(installed_userdata, app))

\* The for loop over the keys of one user's apps object.
RECURSIVE PushReferenced(_, _, _)
PushReferenced(keys, installed, installed_userdata) ==
    IF keys = <<>> THEN [kind |-> "Ok", err |-> "", value |-> installed_userdata]
    ELSE LET key == ParseU64(Head(keys)[1])
             found == Candidates(installed, key, installed_userdata)
         IN IF key = -1 THEN [kind |-> "Panic", err |-> "", value |-> <<>>]
            ELSE PushReferenced(Tail(keys), installed,
                     IF found # <<>> THEN Append(installed_userdata, Head(found))
                     ELSE installed_userdata)

\* It is read by list_installed_applications_by_userdata: a directory holding
\* a localconfig.vdf.
HasLocalConfig(user) == user.is_dir /\ user.localconfig.exists

\* The for_each over the users still to read.
RECURSIVE ReadUsers(_, _, _)
ReadUsers(users, installed, installed_userdata) ==
    IF users = <<>> THEN [kind |-> "Ok", err |-> "", value |-> installed_userdata]
    ELSE LET local_config == Head(users).localconfig
         IN IF ~local_config.parses
            THEN ReadUsers(Tail(users), installed, installed_userdata)
            ELSE LET apps == AppKeysOf(local_config.vdf)
                 IN IF apps.kind # "Ok"
                    THEN [kind |-> "Panic", err |-> "", value |-> <<>>]
                    ELSE LET pushed == PushReferenced(apps.keys, installed,
                                                      installed_userdata)
                         IN IF pushed.kind # "Ok" THEN pushed
                            ELSE ReadUsers(Tail(users), installed, pushed.value)

list_installed_applications_by_userdata ==
    LET installed == list_installed_applications
    IN IF installed.kind # "Ok" THEN installed
       ELSE IF ~userdata_dir THEN [kind |-> "Panic", err |-> "", value |-> <<>>]
       ELSE ReadUsers(SelectSeq(userdata, HasLocalConfig), installed.value, <<>>)

\* The for loop of list_shortcuts over the users still to read.
RECURSIVE ReadShortcuts(_, _)
ReadShortcuts(users, apps) ==
    IF users = <<>> THEN [kind |-> "Ok", err |-> "", value |-> apps]
    ELSE LET shortcuts_file == Head(users).shortcuts
         IN IF ~Head(users).is_dir \/ shortcuts_file.kind \in {"missing", "undecodable"}
            THEN ReadShortcuts(Tail(users), apps)
            ELSE IF shortcuts_file.kind = "malformed"
            THEN [kind |-> "Panic", err |-> "", value |-> <<>>]
            ELSE ReadShortcuts(Tail(users), apps \o shortcuts_file.apps)

list_shortcuts ==
    IF ~userdata_dir THEN [kind |-> "Ok", err |-> "", value |-> <<>>]
    ELSE ReadShortcuts(userdata, <<>>)

NoApps == [kind |-> "None", err |-> "", value |-> <<>>]

\* The entries of the userdata directory in read_dir order, one per user.
UserListings(entries) ==
    {q \in SeqsUpTo(entries, MaxUsers) :
        \A i, j \in 1..Len(q) : i # j => q[i].name # q[j].name}

UserdataIdle ==
    /\ userdata_dir = FALSE
    /\ userdata = <<>>
    /\ shortcuts_result = NoApps
    /\ userdata_result = NoApps

\* The users as list_shortcuts meets them.
ShortcutsInit ==
    /\ userdata_dir \in BOOLEAN
    /\ userdata \in UserListings(
           {[name |-> u, is_dir |-> TRUE, localconfig |-> NoLocalConfig, shortcuts |-> s] :
                u \in Users, s \in ShortcutsFiles})
    /\ ~userdata_dir => userdata = <<>>
    /\ shortcuts_result = NoApps
    /\ userdata_result = NoApps

\* The users as list_installed_applications_by_userdata meets them.
UserdataInit ==
    /\ userdata_dir \in BOOLEAN
    /\ userdata \in UserListings(
           {[name |-> u, is_dir |-> TRUE, localconfig |-> c, shortcuts |-> NoShortcuts] :
                u \in Users, c \in LocalConfigs})
    /\ ~userdata_dir => userdata = <<>>
    /\ shortcuts_result = NoApps
    /\ userdata_result = NoApps

ListShortcuts ==
    /\ shortcuts_result' = list_shortcuts
    /\ UNCHANGED <<userdata_dir, userdata, userdata_result>>
    /\ UNCHANGED <<queue_vars, locator_vars, catalog_vars, config_vars, tools_vars,
                   delete_vars, descriptor_vars>>

ListInstalledApplicationsByUserdata ==
    /\ userdata_result' = list_installed_applications_by_userdata
    /\ UNCHANGED <<userdata_dir, userdata, shortcuts_result>>
    /\ UNCHANGED <<queue_vars, locator_vars, catalog_vars, config_vars, tools_vars,
                   delete_vars, descriptor_vars>>

\* ========================================================================
\* recursive_delete_dir_entry
\* ========================================================================
\* The paths: a tool directory with a file, a subdirectory two levels deep and
\* a symbolic link, and a directory outside it that the link points to.
PathOrder ==
    << "tool", "tool/a", "tool/sub", "tool/sub/b", "tool/sub/c", "tool/link",
       "other", "other/f" >>
Paths == {PathOrder[i] : i \in 1..Len(PathOrder)}
Root == "/"
Parent ==
    [p \in Paths |->
        CASE p \in {"tool", "other"} -> Root
          [] p \in {"tool/a", "tool/sub", "tool/link"} -> "tool"
          [] p \in {"tool/sub/b", "tool/sub/c"} -> "tool/sub"
          [] OTHER -> "other"]
LinkTarget == "other"

\* The filesystems: a path is there only in a directory, the one link is
\* tool/link, and what it points to is a directory or a file.
Filesystems ==
    {f \in [Paths -> {"absent", "file", "dir", "link"}] :
        /\ \A p \in Paths : f[p] = "link" => p = "tool/link"
        /\ \A p \in Paths : (f[p] # "absent" /\ Parent[p] # Root) => f[Parent[p]] = "dir"
        /\ f["other"] \in {"dir", "file"}
        /\ f["tool/sub/c"] \in {"absent", "file"}
        /\ f["other/f"] \in {"absent", "file"}}

Faults ==
    {[remove |-> r, read_dir |-> d] :
        r \in {s \in SUBSET Paths : Cardinality(s) <= MaxFaults},
        d \in {{}, {"tool/sub"}}}

Reverse(s) == [i \in 1..Len(s) |-> s[Len(s) + 1 - i]]

\* Path::is_dir follows a symbolic link.
IsDir(fs, entry_path) ==
    \/ fs[entry_path] = "dir"
    \/ fs[entry_path] = "link" /\ fs[LinkTarget] = "dir"

\* fs::read_dir(entry_path): the entries of the directory the path leads to,
\* in the order the system yields them.
ReadDir(fs, entry_path) ==
    LET dir == IF fs[entry_path] = "link" THEN LinkTarget ELSE entry_path
    IN SelectSeq(IF del_order = "forward" THEN PathOrder ELSE Reverse(PathOrder),
                 LAMBDA p : Parent[p] = dir /\ fs[p] # "absent")

Failed(st) == [fs |-> st.fs, log |-> st.log, ok |-> FALSE]
Removed(entry_path, st) ==
    [fs |-> [st.fs EXCEPT ![entry_path] = "absent"],
     log |-> Append(st.log, entry_path), ok |-> TRUE]

\* fs::remove_dir(entry_path)?: takes an empty directory only, no link to one.
RemoveDir(entry_path, st) ==
    IF \/ entry_path \in del_faults.remove
       \/ st.fs[entry_path] # "dir"
       \/ \E p \in Paths : Parent[p] = entry_path /\ st.fs[p] # "absent"
    THEN Failed(st)
    ELSE Removed(entry_path, st)

\* fs::remove_file(entry_path)?: takes a file or a link, the link itself.
RemoveFileIgnoringError(entry_path, st) ==
    IF entry_path \in del_faults.remove \/ st.fs[entry_path] \notin {"file", "link"}
    THEN st
    ELSE Removed(entry_path, st)

RemoveFile(entry_path, st) ==
    IF entry_path \in del_faults.remove \/ st.fs[entry_path] \notin {"file", "link"}
    THEN Failed(st)
    ELSE Removed(entry_path, st)

\* recursive_delete_dir_entry on st.fs; st.log lists the removals made so far
\* and st.ok is false once a step has returned Err. DeleteEntries is its for
\* loop over the entries still to delete.
RECURSIVE recursive_delete_dir_entry(_, _), DeleteEntries(_, _)
recursive_delete_dir_entry(entry_path, st) ==
    IF IsDir(st.fs, entry_path)
    THEN IF entry_path \in del_faults.read_dir THEN Failed(st)
         ELSE LET emptied == DeleteEntries(ReadDir(st.fs, entry_path), st)
              IN IF emptied.ok THEN RemoveDir(entry_path, emptied) ELSE emptied
    ELSE RemoveFile(entry_path, st)

DeleteEntries(entries, st) ==
    IF entries = <<>> THEN st
    ELSE LET deleted == recursive_delete_dir_entry(Head(entries), st)
         IN IF deleted.ok THEN DeleteEntries(Tail(entries), deleted) ELSE deleted

NoDelete == [kind |-> "None", entry_path |-> "", before |-> <<>>, log |-> <<>>]

DeleteInit ==
    /\ del_fs \in Filesystems
    /\ del_faults \in Faults
    /\ del_order \in {"forward", "backward"}
    /\ del_result = NoDelete

DeleteIdle ==
    /\ del_fs = [p \in Paths |-> "absent"]
    /\ del_faults = [remove |-> {}, read_dir |-> {}]
    /\ del_order = "forward"
    /\ del_result = NoDelete

\* A call of recursive_delete_dir_entry on a path; the result keeps the
\* filesystem the call started from.
RecursiveDeleteDirEntry(entry_path) ==
    /\ LET st == recursive_delete_dir_entry(entry_path,
                                            [fs |-> del_fs, log |-> <<>>, ok |-> TRUE])
       IN /\ del_fs' = st.fs
          /\ del_result' = [kind |-> IF st.ok THEN "Ok" ELSE "Err",
                            entry_path |-> entry_path, before |-> del_fs,
                            log |-> st.log]
    /\ UNCHANGED <<del_faults, del_order>>
    /\ UNCHANGED <<queue_vars, locator_vars, catalog_vars, config_vars, tools_vars,
                   userdata_vars, descriptor_vars>>

\* ========================================================================
\* generate_compatibility_tool_vdf and the descriptor read back
\* ========================================================================

\* The text writeln! produces: the template with the two names put in as they
\* are. A run of line break and indentation is one "NL", a run of blanks "WS".
generate_compatibility_tool_vdf(internal_name, display_name) ==
    << "Q", "compatibilitytools", "Q", "NL", "{", "NL",
       "Q", "compat_tools", "Q", "NL", "{", "NL", "Q" >>
    \o internal_name
    \o << "Q", "NL", "{", "NL",
          "Q", "install_path", "Q", "WS", "Q", ".", "Q", "NL",
          "Q", "display_name", "Q", "WS", "Q" >>
    \o display_name
    \o << "Q", "NL",
          "Q", "from_oslist", "Q", "WS", "Q", "windows", "Q", "NL",
          "Q", "to_oslist", "Q", "WS", "Q", "linux", "Q", "NL",
          "}", "NL", "}", "NL", "}", "NL" >>

\* Vdf::parse, the text grammar with escapes: a document is one pair, a pair
\* is a key and a value, a value is a string or { pairs }, a string is quoted
\* (with \n \r \t \\ \" escapes) or a run of characters free of white space,
\* quotes and braces.
Whitespace == {"WS", "NL", "CR", "TAB"}
EscapeOf == ("n" :> "NL") @@ ("r" :> "CR") @@ ("t" :> "TAB") @@ ("B" :> "B") @@ ("Q" :> "Q")
NoString == [ok |-> FALSE, str |-> <<>>, rest |-> <<>>]

\* The rest of a quoted string, up to its closing quote.
RECURSIVE QuotedString(_, _)
QuotedString(text, str) ==
    IF text = <<>> THEN NoString
    ELSE IF Head(text) = "Q" THEN [ok |-> TRUE, str |-> str, rest |-> Tail(text)]
    ELSE IF Head(text) = "B"
    THEN IF Len(text) < 2 \/ text[2] \notin DOMAIN EscapeOf THEN NoString
         ELSE QuotedString(Tail(Tail(text)), Append(str, EscapeOf[text[2]]))
    ELSE QuotedString(Tail(text), Append(str, Head(text)))

\* An unquoted string, up to white space, a quote, a brace or the end.
RECURSIVE UnquotedString(_, _)
UnquotedString(text, str) ==
    IF text = <<>> \/ Head(text) \in Whitespace \cup {"Q", "{", "}"}
    THEN [ok |-> TRUE, str |-> str, rest |-> text]
    ELSE IF Head(text) = "B"
    THEN IF Len(text) < 2 \/ text[2] \notin DOMAIN EscapeOf THEN NoString
         ELSE UnquotedString(Tail(Tail(text)), Append(str, EscapeOf[text[2]]))
    ELSE UnquotedString(Tail(text), Append(str, Head(text)))

\* The text as tokens: strings and braces.
RECURSIVE Tokens(_, _)
Tokens(text, tokens) ==
    IF text = <<>> THEN [ok |-> TRUE, tokens |-> tokens]
    ELSE IF Head(text) \in Whitespace THEN Tokens(Tail(text), tokens)
    ELSE IF Head(text) \in {"{", "}"}
    THEN Tokens(Tail(text), Append(tokens, [t |-> Head(text), s |-> <<>>]))
    ELSE LET string == IF Head(text) = "Q" THEN QuotedString(Tail(text), <<>>)
                       ELSE UnquotedString(text, <<>>)
         IN IF ~string.ok THEN [ok |-> FALSE, tokens |-> <<>>]
            ELSE Tokens(string.rest, Append(tokens, [t |-> "str", s |-> string.str]))

NoPair == [ok |-> FALSE, key |-> <<>>, val |-> Str(<<>>), rest |-> <<>>]
NoPairs == [ok |-> FALSE, entries |-> <<>>, rest |-> <<>>]

RECURSIVE Pair(_), Pairs(_, _)
Pair(tokens) ==
    IF Len(tokens) < 2 \/ tokens[1].t # "str" THEN NoPair
    ELSE IF tokens[2].t = "str"
    THEN [ok |-> TRUE, key |-> tokens[1].s, val |-> Str(tokens[2].s),
          rest |-> Tail(Tail(tokens))]
    ELSE IF tokens[2].t = "{"
    THEN LET body == Pairs(Tail(Tail(tokens)), <<>>)
         IN IF ~body.ok THEN NoPair
            ELSE [ok |-> TRUE, key |-> tokens[1].s, val |-> Obj(body.entries),
                  rest |-> body.rest]
    ELSE NoPair

\* The pairs of an object, up to its closing brace.
Pairs(tokens, entries) ==
    IF tokens = <<>> THEN NoPairs
    ELSE IF tokens[1].t = "}"
    THEN [ok |-> TRUE, entries |-> entries, rest |-> Tail(tokens)]
    ELSE LET pair == Pair(tokens)
         IN IF ~pair.ok THEN NoPairs
            ELSE Pairs(pair.rest, Append(entries, Entry(pair.key, pair.val)))

\* The file as read_compatibility_tool_from_vdf_path meets it: read_to_string,
\* then Vdf::parse, which takes one pair and nothing after it.
VdfParse(text) ==
    LET lexed == Tokens(text, <<>>)
        pair == Pair(lexed.tokens)
    IN IF lexed.ok /\ pair.ok /\ pair.rest = <<>>
       THEN [exists |-> TRUE, parses |-> TRUE,
             vdf |-> [key |-> pair.key, value |-> pair.val]]
       ELSE UnparsableDescriptor

\* The names: letters, the double quote and the backslash.
NameAtoms == {"a", "n", "Q", "B"}
Names == SeqsUpTo(NameAtoms, MaxNameLen)

\* The directory the descriptor is written into.
ToolDirectory == "GE-Proton"

NoFile == <<>>
NoRead == [kind |-> "None", err |-> "", value |-> <<>>, text |-> NoFile]

DescriptorInit ==
    /\ vdf_internal_name \in Names
    /\ vdf_display_name \in Names
    /\ vdf_file = NoFile
    /\ vdf_result = NoRead

DescriptorIdle ==
    /\ vdf_internal_name = <<>>
    /\ vdf_display_name = <<>>
    /\ vdf_file = NoFile
    /\ vdf_result = NoRead

\* generate_compatibility_tool_vdf writes <tool directory>/compatibilitytool.vdf.
GenerateCompatibilityToolVdf ==
    /\ vdf_file' = generate_compatibility_tool_vdf(vdf_internal_name, vdf_display_name)
    /\ UNCHANGED <<vdf_internal_name, vdf_display_name, vdf_result>>
    /\ UNCHANGED <<queue_vars, locator_vars, catalog_vars, config_vars, tools_vars,
                   userdata_vars, delete_vars>>

\* read_compatibility_tool_from_vdf_path on that file; the result keeps the
\* text that was read.
ReadCompatibilityToolFromVdfPath ==
    /\ LET file == IF vdf_file = NoFile THEN MissingDescriptor ELSE VdfParse(vdf_file)
           result == read_compatibility_tool_from_vdf_path(file, ToolDirectory)
       IN vdf_result' = [kind |-> result.kind, err |-> result.err,
                         value |-> result.value, text |-> vdf_file]
    /\ UNCHANGED <<vdf_internal_name, vdf_display_name, vdf_file>>
    /\ UNCHANGED <<queue_vars, locator_vars, catalog_vars, config_vars, tools_vars,
                   userdata_vars, delete_vars>>

\* ========================================================================
\* Placeholders for the filesystem parts while the queue runs
\* ========================================================================
LocatorIdle ==
    /\ user_home_directory = "None"
    /\ env_userprofile = "None"
    /\ env_home = "None"
    /\ config_vdf_at = {}
    /\ config_libraryfolders_at = {}
    /\ steamapps_libraryfolders_at = {}
    /\ steam_dir_result = [kind |-> "None", err |-> "", home |-> "", root |-> ""]

CatalogIdle ==
    /\ steamapps_dir = FALSE
    /\ libraryfolders_vdf = [exists |-> FALSE, parses |-> FALSE, entries |-> <<>>]
    /\ library_fs = [p \in LibraryPaths |-> [kind |-> "missing", files |-> <<>>]]
    /\ catalog_result = NoCatalog

ConfigIdle ==
    /\ config_vdf = [exists |-> FALSE, readable |-> FALSE, parses |-> FALSE,
                     chain |-> <<>>, table |-> NoTable]
    /\ mappings_result = NoMappings

\* ========================================================================
\* find_steam_directory
\* ========================================================================
\* The layouts probed under the home directory, in probe order.
possible_steam_roots ==
    << ".local/share/Steam", ".steam/root", ".steam/steam",
       ".steam/debian-installation",
       ".var/app/com.valvesoftware.Steam/data/Steam" >>

RootIndexes == 1..Len(possible_steam_roots)

\* The home directory probed: the explicit override, else USERPROFILE, else
\* HOME; "None" when none is set.
user_profile ==
    IF user_home_directory # "None" THEN user_home_directory
    ELSE IF env_userprofile # "None" THEN env_userprofile
    ELSE env_home

\* The test a candidate must pass: config/config.vdf and
\* config/libraryfolders.vdf both exist under it.
Accepts(i) == i \in config_vdf_at /\ i \in config_libraryfolders_at

\* The for loop over the candidates from the i-th on: the index of the first
\* accepted one, 0 when the loop ends without a return.
RECURSIVE ProbeFrom(_)
ProbeFrom(i) ==
    IF i > Len(possible_steam_roots) THEN 0
    ELSE IF Accepts(i) THEN i
    ELSE ProbeFrom(i + 1)

find_steam_directory ==
    IF user_profile = "None"
    THEN [kind |-> "Err", err |-> "HomeDirectoryNotFound", home |-> "", root |-> ""]
    ELSE LET i == ProbeFrom(1)
         IN IF i = 0
            THEN [kind |-> "Err", err |-> "SteamDirectoryNotFound", home |-> "", root |-> ""]
            ELSE [kind |-> "Ok", err |-> "", home |-> user_profile,
                  root |-> possible_steam_roots[i]]

NoSteamDir == [kind |-> "None", err |-> "", home |-> "", root |-> ""]

LocatorInit ==
    /\ user_home_directory \in {"None", "/home/deck"}
    /\ env_userprofile \in {"None", "/profile"}
    /\ env_home \in {"None", "/home/env"}
    /\ config_vdf_at \in SUBSET RootIndexes
    /\ config_libraryfolders_at \in SUBSET RootIndexes
    /\ steamapps_libraryfolders_at \in SUBSET RootIndexes
    /\ steam_dir_result = NoSteamDir

FindSteamDirectory ==
    /\ steam_dir_result' = find_steam_directory
    /\ UNCHANGED <<user_home_directory, env_userprofile, env_home, config_vdf_at,
                   config_libraryfolders_at, steamapps_libraryfolders_at>>
    /\ UNCHANGED <<queue_vars, catalog_vars, config_vars, more_vars>>


Init == QueueInit /\ LocatorIdle /\ CatalogIdle /\ ConfigIdle /\ ToolsIdle /\ UserdataIdle
    /\ DeleteIdle /\ DescriptorIdle

Next ==
    \/ \E t \in NewTasks : Enqueue(t)
    \/ \E p \in Peers : PeerJoin(p)
    \/ \E p \in Peers : PeerLeave(p)
    \/ PopSome
    \/ PopNone
    \/ InstallReturn

Spec == Init /\ [][Next]_vars

\* The worker is scheduled whenever it can take a step, and a handler call
\* returns.
FairSpec == Spec /\ WF_vars(PopSome) /\ WF_vars(InstallReturn)

LocatorSpecInit ==
    QueueInit /\ LocatorInit /\ CatalogIdle /\ ConfigIdle /\ ToolsIdle /\ UserdataIdle
    /\ DeleteIdle /\ DescriptorIdle

LocatorNext == FindSteamDirectory

LocatorSpec == LocatorSpecInit /\ [][LocatorNext]_vars

CatalogSpecInit ==
    QueueInit /\ LocatorIdle /\ CatalogInit /\ ConfigIdle /\ ToolsIdle /\ UserdataIdle
    /\ DeleteIdle /\ DescriptorIdle

CatalogNext ==
    \/ ListLibraryFolders
    \/ ListInstalledApplications

CatalogSpec == CatalogSpecInit /\ [][CatalogNext]_vars

ConfigSpecInit ==
    QueueInit /\ LocatorIdle /\ CatalogIdle /\ ConfigInit /\ ToolsIdle /\ UserdataIdle
    /\ DeleteIdle /\ DescriptorIdle

ConfigNext == GetCompatibilityToolsMappings

ConfigSpec == ConfigSpecInit /\ [][ConfigNext]_vars

\* The read-side operations on a tools directory, a steamapps directory, a
\* config.vdf and per-user shortcuts of any of the modelled shapes.
ToolsSpecInit ==
    /\ QueueInit /\ LocatorIdle /\ ToolsInit /\ DeleteIdle /\ DescriptorIdle
    /\ ShortcutsInit /\ Len(userdata) <= 1
    /\ steamapps_dir = TRUE
    /\ catalog_result = NoCatalog
    /\ libraryfolders_vdf \in {[exists |-> FALSE, parses |-> FALSE, entries |-> <<>>],
                               [exists |-> TRUE, parses |-> TRUE, entries |-> <<"/lib1">>]}
    /\ library_fs = [p \in LibraryPaths |-> [kind |-> "dir", files |-> <<GameA>>]]
    /\ mappings_result = NoMappings
    /\ config_vdf \in
           {[exists |-> FALSE, readable |-> FALSE, parses |-> FALSE,
             chain |-> <<>>, table |-> NoTable],
            [exists |-> TRUE, readable |-> TRUE, parses |-> TRUE,
             chain |-> <<"Software", "Valve", "Steam", "CompatToolMapping">>,
             table |-> ("42" :> "GE-Proton")]}

ToolsNext ==
    \/ ListCompatibilityTools
    \/ ListInstalledApplications
    \/ ListShortcuts
    \/ GetCompatibilityToolsMappings

ToolsSpec == ToolsSpecInit /\ [][ToolsNext]_vars

\* The filtered catalog over two libraries, which may hold app 730 twice, and
\* the users' localconfig.vdf of any of the modelled shapes.
UserdataSpecInit ==
    /\ QueueInit /\ LocatorIdle /\ ConfigIdle /\ ToolsIdle /\ DeleteIdle /\ DescriptorIdle
    /\ UserdataInit
    /\ steamapps_dir = TRUE
    /\ catalog_result = NoCatalog
    /\ libraryfolders_vdf \in
           {[exists |-> FALSE, parses |-> FALSE, entries |-> <<>>],
            [exists |-> TRUE, parses |-> TRUE, entries |-> <<"/lib1", "/lib2">>]}
    /\ \E first \in {<<>>, <<GameA>>, <<GameA, GameB>>},
          second \in {<<>>, <<GameACopy>>, <<GameB>>} :
           library_fs = ("/lib1" :> [kind |-> "dir", files |-> first]
                         @@ "/lib2" :> [kind |-> "dir", files |-> second])

UserdataNext ==
    \/ ListInstalledApplicationsByUserdata
    \/ ListInstalledApplications

UserdataSpec == UserdataSpecInit /\ [][UserdataNext]_vars

\* Deleting a tool directory, or a subdirectory of it, on any of the modelled
\* filesystems.
DeleteSpecInit ==
    /\ QueueInit /\ LocatorIdle /\ CatalogIdle /\ ConfigIdle /\ ToolsIdle /\ UserdataIdle
    /\ DeleteInit /\ DescriptorIdle

DeleteNext == \E entry_path \in {"tool", "tool/sub"} : RecursiveDeleteDirEntry(entry_path)

DeleteSpec == DeleteSpecInit /\ [][DeleteNext]_vars

\* Writing a descriptor for a pair of names and reading it back.
DescriptorSpecInit ==
    /\ QueueInit /\ LocatorIdle /\ CatalogIdle /\ ConfigIdle /\ ToolsIdle /\ UserdataIdle
    /\ DeleteIdle /\ DescriptorInit

DescriptorNext ==
    \/ GenerateCompatibilityToolVdf
    \/ ReadCompatibilityToolFromVdfPath

DescriptorSpec == DescriptorSpecInit /\ [][DescriptorNext]_vars

\* ------------------------------------------------------------------------
\* Properties of the task queue and its worker
\* ------------------------------------------------------------------------

\* C1: the worker starts tasks in the order they were appended. Ids are given
\* in append order, so: the popped ids are increasing, no task is popped while
\* an earlier one still waits, and the handler calls are made in the same order.
C1_FifoOrder ==
    /\ \A i, j \in 1..Len(dequeued) : i < j => dequeued[i] < dequeued[j]
    /\ \A i \in 1..Len(dequeued) :
          \A k \in 1..Len(task_queue) : dequeued[i] < task_queue[k].id
    /\ \A i, j \in 1..Len(invoked) : i < j => invoked[i].id < invoked[j].id

\* Two tasks have been started one after the other while a third still waits.
C1_Witness ==
    /\ Len(dequeued) >= 2
    /\ Len(invoked) >= 2
    /\ task_queue # <<>>

\* C2: at most one task is in Processing: while a handler call has not
\* returned, its task is the last one popped and the worker is not at its
\* loop head; nothing is in Processing while the worker pops.
C2_AtMostOneProcessing ==
    /\ Cardinality(processing) <= 1
    /\ \A t \in processing :
          /\ pc = "install"
          /\ dequeued # <<>>
          /\ dequeued[Len(dequeued)] = t.id
    /\ pc = "pop" => processing = {}

\* A handler runs while the next task already waits in the queue.
C2_Witness ==
    /\ processing # {}
    /\ task_queue # <<>>
    /\ Len(dequeued) >= 2

\* C3: every task the worker popped was handed to the handler of its kind: an
\* install task to the install handler with its payload and the peer set, an
\* uninstall task to the uninstall handler. (Stated for the well-formed tasks:
\* an install task that carries no payload has nothing to be invoked with.)
C3_EveryDequeuedTaskDispatched ==
    \A i \in 1..Len(dequeued) :
        LET t == enqueued[dequeued[i]]
        IN (t.type = InstallCompatibilityTool => t.install # NoPayload) =>
              \E k \in 1..Len(invoked) :
                  /\ invoked[k].id = t.id
                  /\ invoked[k].handler =
                        (IF t.type = InstallCompatibilityTool
                         THEN "install" ELSE "uninstall")
                  /\ t.type = InstallCompatibilityTool => invoked[k].payload = t.install
                  /\ invoked[k].peers \subseteq Peers

\* C4: no failure while processing a popped task ends the worker loop: the
\* worker is always either waiting for the next task or inside a handler call.
C4_WorkerLoopNeverTerminates == pc \in {"pop", "install"}

\* C5: every appended task is consumed exactly once: popped at most once,
\* and, the worker being scheduled and handler calls returning, eventually
\* popped and processed, after which it is not in the queue.
C5_EveryTaskConsumedExactlyOnce ==
    /\ [](\A i, j \in 1..Len(dequeued) : i # j => dequeued[i] # dequeued[j])
    /\ \A id \in 1..MaxTasks :
          (Len(enqueued) >= id) ~>
              (id \in handled /\ \A k \in 1..Len(task_queue) : task_queue[k].id # id)

\* ------------------------------------------------------------------------
\* Properties of find_steam_directory
\* ------------------------------------------------------------------------

\* A candidate qualifies when it holds config/config.vdf and the
\* library-folders document where list_library_folders reads it,
\* steamapps/libraryfolders.vdf.
Qualifies(i) == i \in config_vdf_at /\ i \in steamapps_libraryfolders_at

\* C9: the result is the first candidate in probe order that holds both
\* config/config.vdf and steamapps/libraryfolders.vdf; a candidate lacking
\* either is never returned, and with no such candidate the result is
\* SteamDirectoryNotFound.
C9_FirstQualifyingCandidate ==
    (steam_dir_result.kind # "None" /\ user_profile # "None") =>
        IF \E i \in RootIndexes : Qualifies(i)
        THEN /\ steam_dir_result.kind = "Ok"
             /\ \E i \in RootIndexes :
                   /\ possible_steam_roots[i] = steam_dir_result.root
                   /\ Qualifies(i)
                   /\ \A j \in 1..(i - 1) : ~Qualifies(j)
        ELSE /\ steam_dir_result.kind = "Err"
             /\ steam_dir_result.err = "SteamDirectoryNotFound"

\* ------------------------------------------------------------------------
\* Properties of get_compatibility_tools_mappings
\* ------------------------------------------------------------------------

\* C10: with no main config file the call fails with SteamConfigVdfNotFound;
\* with a file that parses but does not hold the path down to the mapping
\* table the call returns the empty mapping.
C10_MissingFileOrMissingPath ==
    mappings_result.kind # "None" =>
        /\ ~config_vdf.exists =>
              /\ mappings_result.kind = "Err"
              /\ mappings_result.err = "SteamConfigVdfNotFound"
        /\ (config_vdf.parses /\ ~PathFound(config_vdf)) =>
              /\ mappings_result.kind = "Ok"
              /\ mappings_result.value = {}

\* ------------------------------------------------------------------------
\* Properties of the catalog functions
\* ------------------------------------------------------------------------

\* The library folders the document names, in scan order.
ListedFolders == SelectSeq(libraryfolders_vdf.entries, NonEmptyPath)

\* The manifests lying in a library's steamapps directory.
ManifestsIn(path) ==
    {library_fs[path].files[i] : i \in
        {k \in 1..Len(library_fs[path].files) : IsManifest(library_fs[path].files[k])}}

\* list_installed_applications has run and returned a list.
CatalogBuilt ==
    /\ catalog_result.op = "list_installed_applications"
    /\ catalog_result.kind = "Ok"

\* C6: the list returned by list_installed_applications holds exactly the app
\* ids of the manifests of all library folders, each id once, and for an id
\* declared in several folders the entry of the first such folder in scan order.
C6_UnionEachIdOnceFirstFolderWins ==
    CatalogBuilt =>
        LET apps == catalog_result.value
            folders == ListedFolders
        IN /\ {apps[i].app_id : i \in 1..Len(apps)} =
                 UNION {{ParseU64(m.appid) : m \in ManifestsIn(folders[k])} :
                            k \in 1..Len(folders)}
           /\ \A i, j \in 1..Len(apps) : i # j => apps[i].app_id # apps[j].app_id
           /\ \A i \in 1..Len(apps) :
                 \E k \in 1..Len(folders) :
                     /\ \E m \in ManifestsIn(folders[k]) :
                           /\ ParseU64(m.appid) = apps[i].app_id
                           /\ m.name = apps[i].name
                     /\ \A h \in 1..(k - 1) :
                           \A m \in ManifestsIn(folders[h]) :
                               ParseU64(m.appid) # apps[i].app_id

\* A library folder is unreadable: its steamapps directory is missing or
\* cannot be listed, or one of its manifests does not parse.
Unreadable(path) ==
    \/ library_fs[path].kind \in {"missing", "unscannable"}
    \/ \E m \in ManifestsIn(path) : ~m.parses

\* The library-folders document itself was read without trouble.
FoldersListed ==
    /\ steamapps_dir
    /\ libraryfolders_vdf.exists
    /\ libraryfolders_vdf.parses
    /\ \A i \in 1..Len(libraryfolders_vdf.entries) :
          libraryfolders_vdf.entries[i] # MalformedEntry

\* C7: when a library folder named by the document is unreadable,
\* list_installed_applications returns an error: no list that leaves the
\* folder out, and no panic.
C7_UnreadableFolderFailsTheCall ==
    (/\ catalog_result.op = "list_installed_applications"
     /\ FoldersListed
     /\ \E k \in 1..Len(ListedFolders) : Unreadable(ListedFolders[k]))
    => catalog_result.kind = "Err"

\* C8: without the steamapps directory list_library_folders and
\* list_installed_applications fail with SteamAppsDirectoryNotFound, and
\* without the library-folders document in it with LibraryFoldersVdfNotFound;
\* neither returns a list.
C8_MissingDocumentIsAnError ==
    catalog_result.op # "none" =>
        /\ ~steamapps_dir =>
              /\ catalog_result.kind = "Err"
              /\ catalog_result.err = "SteamAppsDirectoryNotFound"
        /\ (steamapps_dir /\ ~libraryfolders_vdf.exists) =>
              /\ catalog_result.kind = "Err"
              /\ catalog_result.err = "LibraryFoldersVdfNotFound"

\* list_installed_applications ran against a steamapps directory that holds no
\* library-folders document, with manifests lying in a library, and failed.
C8_Witness ==
    /\ catalog_result.op = "list_installed_applications"
    /\ steamapps_dir
    /\ ~libraryfolders_vdf.exists
    /\ \E p \in LibraryPaths : ManifestsIn(p) # {}
    /\ catalog_result.kind = "Err"
    /\ catalog_result.err = "LibraryFoldersVdfNotFound"

\* A tool name is blank: empty, or nothing but whitespace.
Blank(name) == name \in {"", " "}

\* C11: the mapping returned holds app id -> tool name for exactly the entries
\* of the mapping table whose name is not blank; an entry whose name is empty
\* or only whitespace is left out.
C11_OnlyNonBlankNames ==
    mappings_result.kind = "Ok" =>
        mappings_result.value =
            {<<ParseU64(k), config_vdf.table[k]>> :
                k \in {x \in DOMAIN config_vdf.table : ~Blank(config_vdf.table[x])}}

\* ------------------------------------------------------------------------
\* Properties of the tools directory
\* ------------------------------------------------------------------------

\* A subdirectory with a well-formed descriptor, and the tool it describes.
WellFormedTool(entry) ==
    entry.is_dir /\ entry.descriptor = DescriptorWith(entry.name, RequiredFields)

DescribedTool(entry) ==
    [directory_name |-> entry.name,
     internal_name |-> <<entry.name>>,
     display_name |-> FieldValue("display_name", entry.name),
     from_os_list |-> <<"windows">>,
     to_os_list |-> <<"linux">>]

\* C12: once list_compatibility_tools has been called on a tools directory that
\* exists, it has returned Ok with exactly one tool for every subdirectory
\* holding a well-formed descriptor: a subdirectory whose descriptor is missing,
\* unparsable or lacks display_name, from_oslist or to_oslist is left out and
\* does not fail the call.
C12_MalformedDescriptorsAreExcluded ==
    (tools_result.kind # "None" /\ tools_dir = "dir") =>
        /\ tools_result.kind = "Ok"
        /\ LET expected == SelectSeq(tools_entries, WellFormedTool)
           IN tools_result.value = [i \in 1..Len(expected) |-> DescribedTool(expected[i])]

\* C13: once list_compatibility_tools has been called with the installation
\* root there, the tools directory missing and its creation failing, it has
\* returned an error value to its caller (it has not panicked).
C13_CreationFailureIsReturned ==
    (/\ tools_result.kind # "None"
     /\ steam_path_exists
     /\ tools_dir = "missing"
     /\ create_dir_fails) => tools_result.kind = "Err"

\* What the read-side operations find on disk.
FilesystemButToolsDir ==
    <<steam_path_exists, tools_entries, steamapps_dir, libraryfolders_vdf, library_fs,
      config_vdf, userdata_dir, userdata>>

\* C15 as stated: no step of list_installed_applications, list_shortcuts,
\* list_compatibility_tools or get_compatibility_tools_mappings changes the
\* filesystem.
C15_ReadersLeaveFilesystemUnchanged ==
    [][UNCHANGED <<FilesystemButToolsDir, tools_dir>>]_vars

\* C15: no step of list_installed_applications, list_shortcuts,
\* list_compatibility_tools or get_compatibility_tools_mappings changes the
\* filesystem, but for one thing: list_compatibility_tools creates the tools
\* directory, empty, when the installation root exists and the tools directory
\* does not.
C15_ReadersOnlyCreateTheToolsDirectory ==
    [][/\ UNCHANGED FilesystemButToolsDir
       /\ tools_dir' # tools_dir =>
              /\ tools_dir = "missing" /\ steam_path_exists
              /\ tools_dir' = "dir" /\ tools_entries' = <<>>
              /\ tools_result'.created]_vars

\* list_compatibility_tools has created the tools directory, and each of the
\* other three operations has run as well.
C15_Witness ==
    /\ tools_result.kind = "Ok" /\ tools_result.created /\ tools_dir = "dir"
    /\ catalog_result.kind = "Ok" /\ catalog_result.value # <<>>
    /\ mappings_result.kind = "Ok"
    /\ shortcuts_result.kind = "Ok" /\ shortcuts_result.value # <<>>

\* ------------------------------------------------------------------------
\* Properties of the recursive delete
\* ------------------------------------------------------------------------

\* The path is top or lies below it.
RECURSIVE InTree(_, _)
InTree(p, top) ==
    \/ p = top
    \/ p # Root /\ Parent[p] # Root /\ InTree(Parent[p], top)

\* C14: whenever recursive_delete_dir_entry has returned Ok for a path, the
\* path and everything that was below it is gone, everything below a directory
\* was removed before the directory itself, and every path outside the tree is
\* what it was before the call.
C14_SuccessfulDeleteRemovesTheTreeOnly ==
    del_result.kind = "Ok" =>
        LET top == del_result.entry_path
            log == del_result.log
        IN /\ \A p \in Paths : InTree(p, top) => del_fs[p] = "absent"
           /\ \A p \in Paths :
                  (InTree(p, top) /\ del_result.before[p] # "absent") =>
                      \E i \in 1..Len(log) : log[i] = p
           /\ \A i, j \in 1..Len(log) : Parent[log[i]] = log[j] => i < j
           /\ \A p \in Paths : ~InTree(p, top) => del_fs[p] = del_result.before[p]

\* A tool directory holding a file and a subdirectory with two files has been
\* deleted, next to a directory that holds a file.
C14_Witness ==
    /\ del_result.kind = "Ok"
    /\ del_result.entry_path = "tool"
    /\ del_result.before["tool/a"] = "file"
    /\ del_result.before["tool/sub"] = "dir"
    /\ del_result.before["tool/sub/b"] = "file"
    /\ del_result.before["tool/sub/c"] = "file"
    /\ del_result.before["other/f"] = "file"

\* ------------------------------------------------------------------------
\* Properties of the filtered catalog
\* ------------------------------------------------------------------------

\* Some user's localconfig.vdf holds the app id among the keys of its apps
\* object.
Referenced(app_id) ==
    \E i \in 1..Len(userdata) :
        /\ userdata[i].localconfig.parses
        /\ AppKeysOf(userdata[i].localconfig.vdf).kind = "Ok"
        /\ \E k \in 1..Len(AppKeysOf(userdata[i].localconfig.vdf).keys) :
               ParseU64(AppKeysOf(userdata[i].localconfig.vdf).keys[k][1]) = app_id

\* C16: once list_installed_applications_by_userdata has returned Ok, every
\* entry of its list is an entry of the unfiltered catalog with an id some
\* user's localconfig.vdf references, and no app id is in the list twice.
C16_FilteredCatalogHoldsEachIdOnce ==
    userdata_result.kind = "Ok" =>
        /\ \A i \in 1..Len(userdata_result.value) :
              /\ Contains(list_installed_applications.value, userdata_result.value[i])
              /\ Referenced(userdata_result.value[i].app_id)
        /\ \A i, j \in 1..Len(userdata_result.value) :
              i # j => userdata_result.value[i].app_id # userdata_result.value[j].app_id

\* ------------------------------------------------------------------------
\* The worker on an empty queue
\* ------------------------------------------------------------------------

\* C17: while the task queue is empty the worker is suspended: it takes no
\* step of its loop, that is, it does not ask the queue again and get None
\* (polls counts the times it has).
C17_SuspendedWhileQueueEmpty ==
    [][task_queue = <<>> => polls' = polls]_vars

\* ------------------------------------------------------------------------
\* The descriptor round trip
\* ------------------------------------------------------------------------

\* C18: once the descriptor that generate_compatibility_tool_vdf wrote for two
\* names has been read by read_compatibility_tool_from_vdf_path, the result is
\* Ok with a tool of those two names, from-OS list "windows", to-OS list
\* "linux" and the name of the directory the descriptor lies in.
C18_DescriptorRoundTrip ==
    (vdf_result.kind # "None" /\ vdf_result.text # NoFile) =>
        /\ vdf_result.kind = "Ok"
        /\ vdf_result.value =
               << [directory_name |-> ToolDirectory,
                   internal_name |-> vdf_internal_name,
                   display_name |-> vdf_display_name,
                   from_os_list |-> <<"windows">>,
                   to_os_list |-> <<"linux">>] >>

====
